---- MODULE Spec2Model ----
(***************************************************************************)
(* A model of kneedle-rs (src/lib.rs, src/maths.rs): the Kneedle knee and  *)
(* elbow detector.  The library is a set of pure functions; the state      *)
(* machine draws an input curve, then applies one library call at a time   *)
(* and records the arguments and the returned value.                       *)
(*                                                                         *)
(* Vec<T> is a function with domain 0..len-1, so indices are the code's.   *)
(* f64 values are exact rationals [n, d] in lowest terms with d > 0; NaN   *)
(* is [n |-> 0, d |-> 0] and compares false with everything, as in IEEE.   *)
(* The input coordinates are integers, for which f64 add/subtract is exact.*)
(***************************************************************************)
EXTENDS Integers, Sequences, FiniteSets, TLC

\* ------------------------------------------------------------- bounds
MaxLen == 3
MaxX == 2
MaxY == 2
MaxWindow == 3
MaxS == 1

\* ------------------------------------------------------------- Vec
\* F(v), with v evaluated once and bound to a name (a let-binding by value)
Bind(v, F(_)) == CHOOSE r \in {F(x) : x \in {v}} : TRUE

Size(v) == Cardinality(DOMAIN v)

EmptyVec == << >>

Push(v, x) == Bind(v, LAMBDA u : u @@ (Size(u) :> x))

\* [F(0), ..., F(n-1)] with every element evaluated
Tabulate(n, F(_)) == [i \in 0..(n - 1) |-> F(i)] @@ EmptyVec

\* ------------------------------------------------------------- f64
Abs(x) == Bind(x, LAMBDA v : IF v < 0 THEN 0 - v ELSE v)

Sign(x) == Bind(x, LAMBDA v : IF v < 0 THEN 0 - 1 ELSE IF v > 0 THEN 1 ELSE 0)

RECURSIVE GCD(_, _)
GCD(a, b) ==
    Bind(<<a, b>>, LAMBDA p : IF p[2] = 0 THEN p[1] ELSE GCD(p[2], p[1] % p[2]))

LCM(a, b) == Bind(<<a, b>>, LAMBDA p : (p[1] \div GCD(p[1], p[2])) * p[2])

NaN == [n |-> 0, d |-> 0]

IsFinite(a) == a.d # 0

IsNaN(a) == Bind(a, LAMBDA v : v.d = 0 /\ v.n = 0)

\* n/d for d > 0, in lowest terms
Rat(n, d) ==
    Bind(<<n, d>>, LAMBDA p :
        IF p[2] = 1 THEN [n |-> p[1], d |-> 1]
        ELSE Bind(GCD(Abs(p[1]), p[2]), LAMBDA g : [n |-> p[1] \div g, d |-> p[2] \div g]))

Zero == [n |-> 0, d |-> 1]

FromInt(k) == [n |-> k, d |-> 1]

RAdd(a, b) ==
    Bind(<<a, b>>, LAMBDA p :
        IF ~IsFinite(p[1]) \/ ~IsFinite(p[2]) THEN NaN
        ELSE IF p[1].d = p[2].d THEN Rat(p[1].n + p[2].n, p[1].d)
        ELSE Bind(LCM(p[1].d, p[2].d), LAMBDA l :
                 Rat(p[1].n * (l \div p[1].d) + p[2].n * (l \div p[2].d), l)))

RNeg(a) == Bind(a, LAMBDA v : [n |-> 0 - v.n, d |-> v.d])

RSub(a, b) == RAdd(a, RNeg(b))

RMul(a, b) ==
    Bind(<<a, b>>, LAMBDA p :
        IF ~IsFinite(p[1]) \/ ~IsFinite(p[2]) THEN NaN
        ELSE IF p[1].n = 0 \/ p[2].n = 0 THEN Zero
        ELSE Bind(<<GCD(Abs(p[1].n), p[2].d), GCD(Abs(p[2].n), p[1].d)>>, LAMBDA g :
                 [n |-> (p[1].n \div g[1]) * (p[2].n \div g[2]),
                  d |-> (p[1].d \div g[2]) * (p[2].d \div g[1])]))

\* IEEE division: 0/0 is NaN, x/0 is a signed infinity [n |-> +-1, d |-> 0]
RDiv(a, b) ==
    Bind(<<a, b>>, LAMBDA p :
        IF ~IsFinite(p[1]) \/ ~IsFinite(p[2]) THEN NaN
        ELSE IF p[2].n = 0 THEN [n |-> Sign(p[1].n), d |-> 0]
        ELSE RMul(p[1], [n |-> Sign(p[2].n) * p[2].d, d |-> Abs(p[2].n)]))

\* a < b; false when either side is not a number
RLt(a, b) ==
    Bind(<<a, b>>, LAMBDA p :
        /\ IsFinite(p[1])
        /\ IsFinite(p[2])
        /\ IF p[1].d = p[2].d THEN p[1].n < p[2].n
           ELSE Bind(LCM(p[1].d, p[2].d), LAMBDA l :
                    p[1].n * (l \div p[1].d) < p[2].n * (l \div p[2].d)))

RGt(a, b) == RLt(b, a)

\* f64::min and f64::max: a NaN operand yields the other operand
RMin(a, b) ==
    Bind(<<a, b>>, LAMBDA p :
        IF IsNaN(p[1]) THEN p[2] ELSE IF IsNaN(p[2]) THEN p[1]
        ELSE IF RLt(p[2], p[1]) THEN p[2] ELSE p[1])

RMax(a, b) ==
    Bind(<<a, b>>, LAMBDA p :
        IF IsNaN(p[1]) THEN p[2] ELSE IF IsNaN(p[2]) THEN p[1]
        ELSE IF RGt(p[2], p[1]) THEN p[2] ELSE p[1])

\* Result<T, &str>, plus the panic a Rust build aborts with
Ok(v) == [status |-> "Ok", msg |-> "", val |-> v]

Err(m) == [status |-> "Err", msg |-> m, val |-> EmptyVec]

Panic(m) == [status |-> "Panic", msg |-> m, val |-> EmptyVec]

\* ------------------------------------------------------------- maths.rs
\* as i32 / as i32: Rust integer division truncates toward zero (b # 0)
TruncDiv(a, b) == Bind(<<a, b>>, LAMBDA p : Sign(p[1]) * Sign(p[2]) * (Abs(p[1]) \div Abs(p[2])))

\* gaussian(x, 1.0, 0.0, 1.0) = exp(-x*x/2) at the integer scores the caller
\* passes, as a multiple of 1/WeightScale: exp(-1/2) = 0.6065.. is 54/90,
\* exp(-2) = 0.1353.. is 12/90, exp(-9/2) = 0.0111.. is 1/90
WeightScale == 90

Gaussian(x) ==
    Bind(x, LAMBDA v : IF v = 0 THEN WeightScale ELSE IF v = 1 THEN 54 ELSE IF v = 2 THEN 12 ELSE 1)

WindowStart(i, w) == IF 0 < i - w THEN i - w ELSE 0

WindowEndUnclamped(i, w, datasize) == i + w

WindowEnd(i, w, datasize) == IF datasize - 1 < i + w THEN datasize - 1 ELSE i + w

\* (((j as i32 - i as i32) / w as i32) as f64).abs(), for w # 0
IndexScore(i, j, w) == Abs(TruncDiv(j - i, w))

\* the sum of F(j) for j in lo..hi
SumOver(lo, hi, F(_)) ==
    LET RECURSIVE sum(_)
        sum(j) == Bind(j, LAMBDA k : IF k > hi THEN 0 ELSE F(k) + sum(k + 1))
    IN sum(lo)

\* one pass of the body of the loop over i: the smoothed row i.  Both sums are
\* kept in units of 1/WeightScale, which cancels in sum_weights / sum_index_weight
SmoothRow(data, i, w, dimensions) ==
    Bind(<<WindowStart(i, w), WindowEnd(i, w, Size(data))>>, LAMBDA range :
        LET index_weight(j) == Gaussian(IndexScore(i, j, w))
            sum_index_weight == SumOver(range[1], range[2], index_weight)
            sum_weights(n) ==
                SumOver(range[1], range[2], LAMBDA j : index_weight(j) * data[j][n])
        IN Tabulate(dimensions, LAMBDA n : Rat(sum_weights(n), sum_index_weight)))

\* data, w: values.  The loop over i returns at the first row it cannot process
GaussianSmooth2d(data, w) ==
    LET datasize == Size(data)
        dimensions == Size(data[0])
        RECURSIVE loop(_, _)
        loop(i, smoothed) ==
            IF i >= datasize THEN Ok(smoothed)
            ELSE IF Size(data[i]) # dimensions
                THEN Err("all rows must have the same dimension")
            ELSE IF w = 0
                THEN Panic("attempt to divide by zero")
            ELSE IF \E j \in WindowStart(i, w)..WindowEnd(i, w, datasize) :
                        j >= datasize \/ Size(data[j]) < dimensions
                THEN Panic("index out of bounds")
            ELSE Bind(<<i + 1, smoothed @@ (i :> SmoothRow(data, i, w, dimensions))>>,
                      LAMBDA p : loop(p[1], p[2]))
    IN IF datasize = 0 THEN Err("Empty data")
       ELSE IF dimensions = 0 THEN Err("dimension cannot be 0")
       ELSE loop(0, EmptyVec)

\* min_each_dimension starts at f64::MIN_POSITIVE = 2^-1022 (the assignment of
\* f64::MAX is overwritten at once).  Every value of the model is 0 or at least
\* 2^-40 in magnitude, so min(MIN_POSITIVE, v) is v for v <= 0 and MIN_POSITIVE
\* otherwise, and v - MIN_POSITIVE rounds to v: MIN_POSITIVE acts as 0.
MinInit == Zero

\* max_each_dimension keeps the 0.0 it is allocated with
MaxInit == Zero

\* data: a value.  The first loop returns at a row of another dimension
MinmaxNormalize(data) ==
    LET datasize == Size(data)
        dimensions == Size(data[0])
        RECURSIVE fold(_, _, _)
        fold(i, mins, maxs) ==
            IF i >= datasize THEN [ok |-> TRUE, mins |-> mins, maxs |-> maxs]
            ELSE IF Size(data[i]) # dimensions
                THEN [ok |-> FALSE, mins |-> mins, maxs |-> maxs]
            ELSE Bind(<<i + 1,
                        Tabulate(dimensions, LAMBDA d : RMin(mins[d], data[i][d])),
                        Tabulate(dimensions, LAMBDA d : RMax(maxs[d], data[i][d]))>>,
                      LAMBDA p : fold(p[1], p[2], p[3]))
        Normalized(mm) ==
            Bind(Tabulate(dimensions, LAMBDA d : RSub(mm.maxs[d], mm.mins[d])),
                 LAMBDA range_each_dimension :
                    Tabulate(datasize, LAMBDA i :
                        Tabulate(dimensions, LAMBDA n :
                            RDiv(RSub(data[i][n], mm.mins[n]), range_each_dimension[n]))))
    IN IF datasize = 0 THEN Err("Empty data")
       ELSE IF dimensions = 0 THEN Err("dimension cannot be 0")
       ELSE Bind(fold(0, Tabulate(dimensions, LAMBDA d : MinInit),
                         Tabulate(dimensions, LAMBDA d : MaxInit)),
                 LAMBDA mm : IF ~mm.ok THEN Err("all rows must have the same dimension")
                             ELSE Ok(Normalized(mm)))

\* a caller's Vec<Vec<f64>> holding the integer coordinates of the input
ToF64(data) ==
    Tabulate(Size(data), LAMBDA i : Tabulate(Size(data[i]), LAMBDA n : FromInt(data[i][n])))

\* ------------------------------------------------------------- lib.rs
IsCandidateSwapped(prev, cur, next, find_minima) ==
    \/ ~find_minima /\ RGt(prev, cur) /\ RGt(next, cur)
    \/ find_minima /\ RLt(prev, cur) /\ RLt(next, cur)

\* the test of find_candidate_indices on three consecutive y values
IsCandidate(prev, cur, next, find_minima) ==
    \/ find_minima /\ RGt(prev, cur) /\ RGt(next, cur)
    \/ ~find_minima /\ RLt(prev, cur) /\ RLt(next, cur)

\* data: a value with rows >= 1 (kneedle rejects the empty curve first)
FindCandidateIndices(data, find_minima) ==
    LET rows == Size(data)
        RECURSIVE loop(_, _)
        loop(i, candidates) ==
            IF i >= rows - 1 THEN candidates
            ELSE Bind(<<i + 1,
                        IF IsCandidate(data[i - 1][1], data[i][1], data[i + 1][1], find_minima)
                        THEN Push(candidates, i)
                        ELSE candidates>>,
                      LAMBDA p : loop(p[1], p[2]))
    IN loop(1, EmptyVec)

\* normalized_data[i][1] -= normalized_data[i][0] on every row
Difference(normalized_data) ==
    Tabulate(Size(normalized_data), LAMBDA i :
        Bind(normalized_data[i], LAMBDA row :
            Tabulate(Size(row), LAMBDA n : IF n = 1 THEN RSub(row[1], row[0]) ELSE row[n])))

\* smooth, normalise, subtract; an error of either step is returned as it is
Prepare(data, smoothing_window) ==
    Bind(GaussianSmooth2d(data, smoothing_window), LAMBDA smoothed_data :
        IF smoothed_data.status # "Ok" THEN smoothed_data
        ELSE Bind(MinmaxNormalize(smoothed_data.val), LAMBDA normalized_data :
                 IF normalized_data.status # "Ok" THEN normalized_data
                 ELSE Ok(Difference(normalized_data.val))))

\* data: a value.  variance / (data.len() - 1) as f64: 0.0 / 0.0 for a single row
ComputeAverageVariance(data) ==
    LET RECURSIVE variance(_)
        variance(i) ==
            IF i >= Size(data) - 1 THEN Zero
            ELSE RAdd(RSub(data[i + 1][0], data[i][0]), variance(i + 1))
    IN RDiv(variance(0), FromInt(Size(data) - 1))

StepSwapped(normalized_data, s, find_elbow) ==
    IF find_elbow
    THEN RMul(ComputeAverageVariance(normalized_data), FromInt(0 - s))
    ELSE RMul(ComputeAverageVariance(normalized_data), FromInt(s))

\* step *= s as f64 for an elbow, step *= -s as f64 for a knee
Step(normalized_data, s, find_elbow) ==
    IF find_elbow
    THEN RMul(ComputeAverageVariance(normalized_data), FromInt(s))
    ELSE RMul(ComputeAverageVariance(normalized_data), FromInt(0 - s))

\* normalized_data[j][1] is past the threshold in the direction searched
Passes(y, threshold, find_elbow) ==
    \/ find_elbow /\ RGt(y, threshold)
    \/ ~find_elbow /\ RLt(y, threshold)

ScanWindowNoBreak(normalized_data, candidate_index, end, threshold, find_elbow) ==
    LET RECURSIVE scan(_, _)
        scan(j, pushed) ==
            IF j >= end THEN pushed
            ELSE Bind(<<j + 1,
                        IF Passes(normalized_data[j][1], threshold, find_elbow)
                        THEN Push(pushed, candidate_index)
                        ELSE pushed>>,
                      LAMBDA p : scan(p[1], p[2]))
    IN scan(candidate_index + 1, EmptyVec)

\* the inner loop over j: the indices it pushes a copy of (one, then break)
ScanWindow(normalized_data, candidate_index, end, threshold, find_elbow) ==
    LET RECURSIVE scan(_)
        scan(j) ==
            IF j >= end THEN EmptyVec
            ELSE IF Passes(normalized_data[j][1], threshold, find_elbow)
                THEN Push(EmptyVec, candidate_index)
            ELSE Bind(j + 1, LAMBDA k : scan(k))
    IN scan(candidate_index + 1)

\* u followed by v
Concat(u, v) ==
    Tabulate(Size(u) + Size(v), LAMBDA k : IF k < Size(u) THEN u[k] ELSE v[k - Size(u)])

\* the loop over the candidates: the input indices whose rows are pushed, in order
\* (all arguments are values)
ConfirmedIndices(normalized_data, candidate_indices, step, find_elbow, datasize) ==
    LET RECURSIVE loop(_, _)
        loop(i, pushed) ==
            IF i >= Size(candidate_indices) THEN pushed
            ELSE Bind(<<candidate_indices[i],
                        IF i + 1 < Size(candidate_indices)
                        THEN candidate_indices[i + 1]
                        ELSE datasize>>,
                      LAMBDA c :
                        Bind(<<i + 1,
                               Concat(pushed,
                                      ScanWindow(normalized_data, c[1], c[2],
                                                 RAdd(normalized_data[c[1]][1], step),
                                                 find_elbow))>>,
                             LAMBDA p : loop(p[1], p[2])))
    IN loop(0, EmptyVec)

\* local_min_max_pts: data[candidate_index].clone() for every pushed index
ClonePoints(data, indices) == Tabulate(Size(indices), LAMBDA k : data[indices[k]])

NoTrace == [normalized |-> EmptyVec, candidates |-> EmptyVec, step |-> Zero,
            indices |-> EmptyVec]

\* the locals of kneedle after prepare has returned Ok(normalized_data)
Detect(data, normalized_data, s, find_elbow) ==
    Bind(<<FindCandidateIndices(normalized_data, find_elbow),
           Step(normalized_data, s, find_elbow)>>,
         LAMBDA l :
            Bind(ConfirmedIndices(normalized_data, l[1], l[2], find_elbow, Size(data)),
                 LAMBDA indices :
                    [ret |-> Ok(ClonePoints(data, indices)),
                     trace |-> [normalized |-> normalized_data,
                                candidates |-> l[1],
                                step |-> l[2],
                                indices |-> indices]]))

\* the returned Result and, beside it, the locals it was computed from
\* (all arguments are values)
Kneedle(data, s, smoothing_window, find_elbow) ==
    IF Size(data) = 0 THEN [ret |-> Err("Empty data"), trace |-> NoTrace]
    ELSE IF Size(data[0]) # 2
        THEN [ret |-> Err("all data should be 2 dimensional"), trace |-> NoTrace]
    ELSE Bind(Prepare(data, smoothing_window), LAMBDA prepared :
             IF prepared.status # "Ok" THEN [ret |-> prepared, trace |-> NoTrace]
             ELSE Detect(data, prepared.val, s, find_elbow))

\* f64::MIN, below every x of the model
F64Min == 0 - 1000000

FlipRowShifted(row, xmax) == (0 :> (row[0] - xmax)) @@ (1 :> row[1])

\* vec![xmax - row[0], row[1]]
FlipRow(row, xmax) == (0 :> (xmax - row[0])) @@ (1 :> row[1])

\* xmax = xmax.max(data[i][0]) over the rows 0..i
RECURSIVE XMax(_, _)
XMax(data, i) ==
    IF i < 0 THEN F64Min
    ELSE Bind(XMax(data, i - 1), LAMBDA m : IF data[i][0] > m THEN data[i][0] ELSE m)

\* data: a value.  Components 0 and 1 of every row are read, so a shorter row panics
FlipX(data) ==
    IF \E i \in DOMAIN data : Size(data[i]) < 2 THEN Panic("index out of bounds")
    ELSE Bind(<<Size(data), XMax(data, Size(data) - 1)>>, LAMBDA p :
             Ok(Tabulate(p[1], LAMBDA k : FlipRow(data[p[1] - 1 - k], p[2]))))

\* ------------------------------------------------------------- inputs
\* the elements of a set of integers in ascending order
Ascending(S) ==
    Tabulate(Cardinality(S),
             LAMBDA i : CHOOSE x \in S : Cardinality({y \in S : y < x}) = i)

Point(x, y) == (0 :> x) @@ (1 :> y)

\* every curve of at most MaxLen points with x strictly increasing in 0..MaxX
\* and y in 0..MaxY, the empty curve included
SmallCurves ==
    UNION {
        { Tabulate(Cardinality(S), LAMBDA i : Point(Ascending(S)[i], ys[i])) :
            ys \in [0..(Cardinality(S) - 1) -> 0..MaxY] } :
        S \in {T \in SUBSET (0..MaxX) : Cardinality(T) <= MaxLen} }

FromSeq(s) ==
    Tabulate(Len(s), LAMBDA i : Tabulate(Len(s[i + 1]), LAMBDA n : s[i + 1][n + 1]))

\* test_data of tests::convex_increasing
ConvexIncreasing ==
    FromSeq(<< <<0, 1>>, <<1, 2>>, <<2, 3>>, <<3, 4>>, <<4, 5>>,
               <<5, 10>>, <<6, 15>>, <<7, 20>>, <<8, 40>>, <<9, 100>> >>)

\* test_data of tests::convex_decreasing
ConvexDecreasing ==
    FromSeq(<< <<0, 100>>, <<1, 40>>, <<2, 20>>, <<3, 15>>, <<4, 10>>,
               <<5, 5>>, <<6, 4>>, <<7, 3>>, <<8, 2>>, <<9, 1>> >>)

\* test_data of tests::concave_decreasing
ConcaveDecreasing ==
    FromSeq(<< <<0, 99>>, <<1, 98>>, <<2, 97>>, <<3, 96>>, <<4, 95>>,
               <<5, 90>>, <<6, 85>>, <<7, 80>>, <<8, 60>>, <<9, 0>> >>)

\* test_data of tests::concave_increasing
ConcaveIncreasing ==
    FromSeq(<< <<0, 0>>, <<1, 60>>, <<2, 80>>, <<3, 85>>, <<4, 90>>,
               <<5, 95>>, <<6, 96>>, <<7, 97>>, <<8, 98>>, <<9, 99>> >>)

TestCurves == {ConvexIncreasing, ConvexDecreasing, ConcaveDecreasing, ConcaveIncreasing}

\* curves of at most MaxLen rows, each row of 0, 1, 2 or 3 components
RaggedCurves ==
    UNION { { Tabulate(len, LAMBDA i : Tabulate(dims[i], LAMBDA n : i + n)) :
                dims \in [0..(len - 1) -> 0..3] } :
            len \in 1..MaxLen }

Curves == SmallCurves \cup TestCurves \cup RaggedCurves

\* ------------------------------------------------------------- state
VARIABLES
    curve,        \* the caller's curve: the input, mirrored `flips` times
    input,        \* the curve the caller started from
    flips,        \* number of flip_x calls applied to reach `curve`
    op,           \* the library function called last
    s,            \* its sensitivity argument
    w,            \* its smoothing window argument
    find_elbow,   \* its find_elbow argument
    ret,          \* what it returned
    trace         \* locals of the kneedle call: difference curve, candidates, step

vars == <<curve, input, flips, op, s, w, find_elbow, ret, trace>>

MaxFlips == 2

Init ==
    /\ input \in Curves
    /\ curve = input
    /\ flips = 0
    /\ op = "none"
    /\ s = 0
    /\ w = 0
    /\ find_elbow = FALSE
    /\ ret = Ok(EmptyVec)
    /\ trace = NoTrace

\* the caller has not called the pipeline yet and has not been aborted
Idle == op \in {"none", "flip_x"} /\ ret.status = "Ok"

\* the pipeline is handed the curve as given or mirrored once, as in
\* kneedle(&test_data, ..) and kneedle(&flip_x(&test_data), ..)
Analysable == Idle /\ flips <= 1

\* curve = flip_x(&curve)
CallFlipX ==
    /\ Idle
    /\ flips < MaxFlips
    /\ \E r \in {FlipX(curve)} :
          /\ ret' = r
          /\ curve' = IF r.status = "Ok" THEN r.val ELSE curve
          /\ flips' = IF r.status = "Ok" THEN flips + 1 ELSE flips
    /\ op' = "flip_x"
    /\ s' = 0
    /\ w' = 0
    /\ find_elbow' = FALSE
    /\ trace' = NoTrace
    /\ UNCHANGED input

\* kneedle(&curve, s, smoothing_window, find_elbow)
CallKneedle ==
    \E sens \in 0..MaxS, window \in 0..MaxWindow, elbow \in BOOLEAN :
        /\ Analysable
        /\ \E r \in {Kneedle(curve, sens, window, elbow)} :
              /\ ret' = r.ret
              /\ trace' = r.trace
        /\ op' = "kneedle"
        /\ s' = sens
        /\ w' = window
        /\ find_elbow' = elbow
        /\ UNCHANGED <<curve, input, flips>>

\* gaussian_smooth2d(&curve, w)
CallGaussianSmooth2d ==
    \E window \in 0..MaxWindow :
        /\ Analysable
        /\ ret' = GaussianSmooth2d(curve, window)
        /\ op' = "gaussian_smooth2d"
        /\ w' = window
        /\ s' = 0
        /\ find_elbow' = FALSE
        /\ trace' = NoTrace
        /\ UNCHANGED <<curve, input, flips>>

\* minmax_normalize(curve)
CallMinmaxNormalize ==
    /\ Analysable
    /\ \E data \in {ToF64(curve)} : ret' = MinmaxNormalize(data)
    /\ op' = "minmax_normalize"
    /\ s' = 0
    /\ w' = 0
    /\ find_elbow' = FALSE
    /\ trace' = NoTrace
    /\ UNCHANGED <<curve, input, flips>>

Next ==
    \/ CallFlipX
    \/ CallKneedle
    \/ CallGaussianSmooth2d
    \/ CallMinmaxNormalize

Spec == Init /\ [][Next]_vars

\* ------------------------------------------------------------- properties
KneedleOk == op = "kneedle" /\ ret.status = "Ok"

\* every row of the caller's curve is a 2-D point
TwoDimensional == \A i \in DOMAIN curve : Size(curve[i]) = 2

Elems(v) == {v[k] : k \in DOMAIN v}

\* C1: an Ok result of kneedle is a subsequence of the input curve: strictly
\* ascending interior candidate indices exist whose input rows, unmodified, are
\* the returned points, one returned point per index.
C1_ResultIsSubsequence ==
    KneedleOk =>
        \E c \in [DOMAIN ret.val -> 1..(Size(curve) - 2)] :
            /\ \A m \in DOMAIN c : c[m] \in Elems(trace.candidates)
            /\ \A m \in DOMAIN c : ret.val[m] = curve[c[m]]
            /\ \A m1, m2 \in DOMAIN c : m1 < m2 => c[m1] < c[m2]

\* C1 witness: kneedle returned two points
C1_Witness == KneedleOk /\ Size(ret.val) >= 2

\* C2: kneedle(convex_increasing test curve, s = 1, window = 1, find_elbow = true)
\* returns exactly the one point (7, 20).
C2_ConvexIncreasingGolden ==
    (op = "kneedle" /\ curve = ConvexIncreasing /\ s = 1 /\ w = 1 /\ find_elbow) =>
        /\ ret.status = "Ok"
        /\ ret.val = (0 :> Point(7, 20))

\* strict local minima and maxima of the y column, over the interior indices
LocalMinima(data) ==
    {i \in 1..(Size(data) - 2) :
        RLt(data[i][1], data[i - 1][1]) /\ RLt(data[i][1], data[i + 1][1])}

LocalMaxima(data) ==
    {i \in 1..(Size(data) - 2) :
        RGt(data[i][1], data[i - 1][1]) /\ RGt(data[i][1], data[i + 1][1])}

\* v lists the elements of S in ascending order, each once
ListsAscending(v, S) ==
    /\ Elems(v) = S
    /\ \A k1, k2 \in DOMAIN v : k1 < k2 => v[k1] < v[k2]

\* C3 as stated: with find_elbow = true the candidates are exactly the strict
\* local maxima of the difference curve, with find_elbow = false the minima.
C3_AsStated ==
    KneedleOk =>
        ListsAscending(trace.candidates,
                       IF find_elbow THEN LocalMaxima(trace.normalized)
                       ELSE LocalMinima(trace.normalized))

\* C3 amended: with find_elbow = true the candidates are exactly the strict local
\* minima of the difference curve, with find_elbow = false the strict local maxima.
C3_CandidateKind ==
    KneedleOk =>
        ListsAscending(trace.candidates,
                       IF find_elbow THEN LocalMinima(trace.normalized)
                       ELSE LocalMaxima(trace.normalized))

\* C3 witness: an elbow search that found a candidate
C3_Witness == KneedleOk /\ find_elbow /\ Size(trace.candidates) >= 1

\* C4: gaussian_smooth2d and kneedle accept window 0 on a non-empty 2-D curve
\* and return a value instead of aborting.
C4_WindowZeroAccepted ==
    (/\ op \in {"kneedle", "gaussian_smooth2d"}
     /\ w = 0
     /\ Size(curve) >= 1
     /\ TwoDimensional) => ret.status # "Panic"

\* C5: with window >= 1, a non-empty curve one of whose rows has another number
\* of components than row 0 makes gaussian_smooth2d and kneedle return an error
\* and no points; they never abort on a missing component.
C5_DimensionMismatchReported ==
    (/\ op \in {"kneedle", "gaussian_smooth2d"}
     /\ w >= 1
     /\ Size(curve) >= 1
     /\ \E i \in DOMAIN curve : Size(curve[i]) # Size(curve[0])) =>
        ret.status = "Err" /\ ret.val = EmptyVec

\* the smallest x of a curve of 2-D points
XMin(data) == CHOOSE x \in {data[i][0] : i \in DOMAIN data} :
                  \A i \in DOMAIN data : x <= data[i][0]

\* C6 as stated: flip_x applied twice gives back the x values, the y values and
\* the order of the curve.
C6_AsStated ==
    (flips = 2 /\ TwoDimensional) =>
        /\ DOMAIN curve = DOMAIN input
        /\ \A i \in DOMAIN curve : curve[i][0] = input[i][0] /\ curve[i][1] = input[i][1]

\* C6 amended: flip_x applied twice keeps the order and the y values and shifts
\* every x by the smallest x of the curve: flip_x(flip_x(C))[i].x = C[i].x - min x.
C6_DoubleFlipShifts ==
    flips = 2 =>
        /\ DOMAIN curve = DOMAIN input
        /\ \A i \in DOMAIN curve :
              /\ curve[i][0] = input[i][0] - XMin(input)
              /\ curve[i][1] = input[i][1]

\* C6 witness: a curve of several points whose smallest x is not 0, mirrored twice
C6_Witness == flips = 2 /\ Size(input) >= 2 /\ XMin(input) > 0

\* the smallest and the largest value of column d
ColumnMin(data, d) == CHOOSE x \in {data[i][d] : i \in DOMAIN data} :
                          \A i \in DOMAIN data : x <= data[i][d]

ColumnMax(data, d) == CHOOSE x \in {data[i][d] : i \in DOMAIN data} :
                          \A i \in DOMAIN data : x >= data[i][d]

\* C7: minmax_normalize maps every value v of a non-constant column to
\* (v - min) / (max - min) for the column's true minimum and maximum, so the
\* smallest value maps to 0 and the largest to 1.
C7_NormalizeTrueMinMax ==
    (op = "minmax_normalize" /\ ret.status = "Ok") =>
        \A i \in DOMAIN curve : \A d \in DOMAIN curve[i] :
            ColumnMin(curve, d) # ColumnMax(curve, d) =>
                ret.val[i][d] = Rat(curve[i][d] - ColumnMin(curve, d),
                                    ColumnMax(curve, d) - ColumnMin(curve, d))

AverageStep(data) ==
    RDiv(RSub(data[Size(data) - 1][0], data[0][0]), FromInt(Size(data) - 1))

\* the end of the scan window of candidate c: the next candidate, or the length
WindowBound(candidates, c, datasize) ==
    IF \E k \in DOMAIN candidates : candidates[k] > c
    THEN CHOOSE e \in Elems(candidates) :
             e > c /\ \A k \in DOMAIN candidates : candidates[k] > c => e <= candidates[k]
    ELSE datasize

\* the candidates some point of whose scan window is past y[c] + step
ConfirmedSet(data, candidates, step, elbow) ==
    {c \in Elems(candidates) :
        \E j \in (c + 1)..(WindowBound(candidates, c, Size(data)) - 1) :
            IF elbow THEN RGt(data[j][1], RAdd(data[c][1], step))
            ELSE RLt(data[j][1], RAdd(data[c][1], step))}

\* the rule but for the value of step: confirmed iff a window point is past the
\* threshold, and each confirmed candidate contributes its input row once
ThresholdRule ==
    /\ ListsAscending(trace.indices,
                      ConfirmedSet(trace.normalized, trace.candidates, trace.step, find_elbow))
    /\ ret.val = [m \in DOMAIN trace.indices |-> curve[trace.indices[m]]]

\* C9 as stated: step = average_step * s for a knee and average_step * (-s) for an
\* elbow; a candidate is confirmed iff some y[j] of its window is below (knee) or
\* above (elbow) y[c] + step, and contributes exactly one point.
C9_AsStated ==
    KneedleOk =>
        /\ trace.step = RMul(AverageStep(trace.normalized),
                             FromInt(IF find_elbow THEN 0 - s ELSE s))
        /\ ThresholdRule

\* C9 amended: step = average_step * s for an elbow and average_step * (-s) for a
\* knee; the rest as stated.
C9_ThresholdConfirmation ==
    KneedleOk =>
        /\ trace.step = RMul(AverageStep(trace.normalized),
                             FromInt(IF find_elbow THEN s ELSE 0 - s))
        /\ ThresholdRule

\* C9 witness: with s >= 1, one candidate was confirmed and another rejected
C9_Witness ==
    /\ KneedleOk
    /\ s >= 1
    /\ Size(trace.indices) >= 1
    /\ Size(trace.candidates) > Size(trace.indices)

\* C10: gaussian_smooth2d averages point i over j in [max(0, i-w), min(n-1, i+w)]
\* with the kernel score the real ratio |j - i| / w, so score * w = |j - i|.
C10_RealValuedScore ==
    (op = "gaussian_smooth2d" /\ w >= 1 /\ ret.status = "Ok") =>
        \A i \in DOMAIN curve :
            /\ WindowStart(i, w) = (IF i - w > 0 THEN i - w ELSE 0)
            /\ WindowEnd(i, w, Size(curve)) =
                   (IF i + w < Size(curve) - 1 THEN i + w ELSE Size(curve) - 1)
            /\ \A j \in WindowStart(i, w)..WindowEnd(i, w, Size(curve)) :
                   IndexScore(i, j, w) * w = Abs(j - i)

====
